---------------------------- MODULE Spec2Model ----------------------------
(***************************************************************************)
(* A model of the block-breaker engine (src/src/lib/gameEngine.ts) and of  *)
(* the collision helpers it uses (src/src/lib/gameUtils.ts).               *)
(*                                                                         *)
(* Numbers.  The engine computes in IEEE doubles.  Here lengths are kept   *)
(* in tenths of a pixel, velocities in tenths of a pixel per second and    *)
(* times in milliseconds, all integers; a product that is not a whole      *)
(* number of tenths is rounded toward zero.  Math.sin / Math.cos are       *)
(* tabulated in thousandths, rounded down, at multiples of 15 degrees.     *)
(*                                                                         *)
(* Events.  The browser is the environment: it runs one handler at a time  *)
(* (key, mouse, touch, click, a frame callback, a timeout callback), each  *)
(* to completion.  One action of the model is one handler, with every call *)
(* it makes.  Math.random() is a tape of draws handed to the handler.      *)
(*                                                                         *)
(* Left out: rendering, the ball trail, positions and sizes of particles   *)
(* (they are only drawn), and the names/gradients of a level.              *)
(***************************************************************************)
EXTENDS Integers, Sequences, FiniteSets, TLC

VARIABLES
    gameState,       \* this.gameState
    gameStats,       \* this.gameStats: score, lives, level, combo, highScore
    currentLevel,    \* this.currentLevel: id, ballSpeed, powerUpChance, blocks
    balls,           \* this.balls
    paddle,          \* this.paddle: x and width (y and height never change)
    blocks,          \* this.blocks: references (indices) to currentLevel.blocks
    powerUps,        \* this.powerUps
    particles,       \* this.particles
    activePowerUps,  \* this.activePowerUps: type -> ms left
    animationId,     \* this.animationId: 0 for null, 1 for an id
    keys,            \* this.keys: the keys that are down
    mouseX,          \* this.mouseX
    touchX,          \* this.touchX
    isTouch,         \* this.isTouch
    localStorage,    \* localStorage['blockBreakerHighScore'], a string or NoItem
    frames,          \* the frame callbacks the browser holds: held, the one
                     \* whose id animationId has; orphans, how many others
    timeouts,        \* ms left of each pending setTimeout callback
    last             \* the handler that ran last and what it did (history)

vars == << gameState, gameStats, currentLevel, balls, paddle, blocks, powerUps,
           particles, activePowerUps, animationId, keys, mouseX, touchX,
           isTouch, localStorage, frames, timeouts, last >>

-----------------------------------------------------------------------------
(* Bounds of the model *)

\* Levels the model plays; nextLevel is not taken at or beyond it.
MaxLevel == 3
\* A canvas click restarts a finished game without resetting the lives;
\* it is taken while lives > -MaxOverdraft.
MaxOverdraft == 1
\* The combo a player carries into a level whose start is enumerated.
CarriedCombo == 13

\* Elapsed time between two frame callbacks, in ms: a slow frame and a tab
\* that was hidden for as long as a power-up lasts.
DeltaTimes == {300, 15000}

\* The draws of Math.random() a handler sees, in thousandths, repeated in
\* a cycle.  A launch reads the first (0.05 and 0.625 give the horizontal
\* speeds -90 and 25); a destroyed block reads the first against its
\* powerUpChance and the second for the type of the drop.
Tapes == { << 50, 50 >>, << 50, 400 >>, << 50, 625 >>, << 50, 900 >>,
           << 625, 50 >> }

\* Positions the pointer reports (tenths of a pixel, relative to the canvas).
MouseXs == {4750, 7200}
TouchXs == {-200}
KeyNames == {"ArrowLeft", "d"}

-----------------------------------------------------------------------------
(* Arithmetic *)

Px(n) == n * 10

Min(a, b) == IF a <= b THEN a ELSE b
Max(a, b) == IF a >= b THEN a ELSE b
Abs(a) == IF a >= 0 THEN a ELSE -a

\* a / b rounded toward zero
Quot(a, b) == IF a >= 0 THEN a \div b ELSE -((-a) \div b)

\* Math.floor(Math.sqrt(n)) by bisection
RECURSIVE SqrtIn(_, _, _)
SqrtIn(n, lo, hi) ==
    IF lo >= hi THEN lo
    ELSE LET mid == (lo + hi + 1) \div 2
         IN  IF mid * mid <= n THEN SqrtIn(n, mid, hi) ELSE SqrtIn(n, lo, mid - 1)

Sqrt(n) == SqrtIn(n, 0, 20000)

\* Math.sqrt(vx * vx + vy * vy), rounded up so that a quotient by it is not
\* larger than the exact one
Magnitude(vx, vy) ==
    LET n == vx * vx + vy * vy
        s == Sqrt(n)
    IN  IF s * s = n THEN s ELSE s + 1

\* velocity * deltaTime, deltaTime in ms
Travel(v, dt) == Quot(v * dt, 1000)

\* gameUtils.clamp
clamp(value, min, max) == Max(min, Min(max, value))

\* Math.sin and Math.cos of k * 15 degrees, k in 0..6, in thousandths
SinTab == << 0, 258, 500, 707, 866, 965, 1000 >>
CosTab == << 1000, 965, 866, 707, 500, 258, 0 >>
Sin15(k) == IF k >= 0 THEN SinTab[k + 1] ELSE -SinTab[(-k) + 1]
Cos15(k) == CosTab[Abs(k) + 1]

\* Number.prototype.toString(16).padStart(2, '0') for 0..255
HexDigits == << "0", "1", "2", "3", "4", "5", "6", "7",
                "8", "9", "a", "b", "c", "d", "e", "f" >>
Hex2(n) == IF n < 16 THEN "0" \o HexDigits[n + 1]
           ELSE HexDigits[(n \div 16) + 1] \o HexDigits[(n % 16) + 1]

RECURSIVE SumSeq(_)
SumSeq(s) == IF s = << >> THEN 0 ELSE Head(s) + SumSeq(Tail(s))

-----------------------------------------------------------------------------
(* Types and configuration *)

START_SCREEN == "startScreen"
PLAYING == "playing"
PAUSED == "paused"
LEVEL_COMPLETE == "levelComplete"
GAME_OVER == "gameOver"
VICTORY == "victory"

MULTI_BALL == "multiball"
PADDLE_EXTEND == "paddleExtend"
BALL_SLOW == "ballSlow"
BONUS_POINTS == "bonusPoints"

\* Object.values(PowerUpType)
PowerUpTypes == << MULTI_BALL, PADDLE_EXTEND, BALL_SLOW, BONUS_POINTS >>

\* getDefaultConfig()
config == [
    canvas    |-> [width |-> Px(800), height |-> Px(600)],
    ball      |-> [radius |-> Px(8), speed |-> Px(300)],
    paddle    |-> [width |-> Px(100), height |-> Px(12), speed |-> Px(500),
                   minWidth |-> Px(60), maxWidth |-> Px(150)],
    blocks    |-> [rows |-> 6, cols |-> 10, width |-> Px(70), height |-> Px(25),
                   padding |-> Px(5),
                   colors |-> << "#FF6B6B", "#4ECDC4", "#45B7D1", "#96CEB4",
                                 "#FFEAA7", "#DDA0DD", "#98D8C8", "#F7DC6F" >>],
    physics   |-> [maxBallSpeed |-> Px(500)],
    powerUps  |-> [fallSpeed |-> Px(150), size |-> Px(20), duration |-> 15000],
    particles |-> [count |-> 8, life |-> 800] ]

\* the y and height createPaddle gives the paddle
PaddleY == config.canvas.height - Px(50)
PaddleHeight == config.paddle.height

-----------------------------------------------------------------------------
(* Strings of digits: Number.prototype.toString and parseInt *)

Digits == << "0", "1", "2", "3", "4", "5", "6", "7", "8", "9" >>
DigitValue(c) == CHOOSE d \in 0..9 : Digits[d + 1] = c
IsDigit(c) == \E d \in 0..9 : Digits[d + 1] = c

\* The value parseInt and arithmetic give for "not a number".  It compares
\* false with everything (see Greater).
NaN == 0 - 1000000

RECURSIVE NatToString(_)
NatToString(n) ==
    IF n < 10 THEN << Digits[n + 1] >>
    ELSE Append(NatToString(n \div 10), Digits[(n % 10) + 1])

\* highScore.toString(): a string is a sequence of characters
toString(n) ==
    IF n = NaN THEN << "N", "a", "N" >>
    ELSE IF n < 0 THEN << "-" >> \o NatToString(-n)
    ELSE NatToString(n)

\* The longest prefix of s made of digits
RECURSIVE DigitPrefix(_)
DigitPrefix(s) ==
    IF s = << >> \/ ~IsDigit(Head(s)) THEN << >>
    ELSE << Head(s) >> \o DigitPrefix(Tail(s))

RECURSIVE DigitsToNat(_, _)
DigitsToNat(s, acc) ==
    IF s = << >> THEN acc ELSE DigitsToNat(Tail(s), acc * 10 + DigitValue(Head(s)))

\* parseInt(s): leading blanks and a sign are accepted, then the digits up
\* to the first other character; NaN when there is no digit
RECURSIVE parseInt(_)
parseInt(s) ==
    IF s = << >> THEN NaN
    ELSE IF Head(s) = " " THEN parseInt(Tail(s))
    ELSE LET neg  == Head(s) = "-"
             body == IF Head(s) \in {"-", "+"} THEN Tail(s) ELSE s
             ds   == DigitPrefix(body)
         IN  IF ds = << >> THEN NaN
             ELSE IF neg THEN -DigitsToNat(ds, 0) ELSE DigitsToNat(ds, 0)

\* a > b on numbers: false when either is NaN
Greater(a, b) == a # NaN /\ b # NaN /\ a > b

\* localStorage.getItem gives null for a missing key
NoItem == [present |-> FALSE, value |-> << >>]
Item(s) == [present |-> TRUE, value |-> s]

-----------------------------------------------------------------------------
(* The world a handler runs in: the engine's fields, the browser's queues, *)
(* the tape of Math.random() draws and the record of what the handler did. *)

\* The engine's fields and the browser's queues, as they are now
State == [
    gameState |-> gameState, gameStats |-> gameStats,
    currentLevel |-> currentLevel, balls |-> balls, paddle |-> paddle,
    blocks |-> blocks, powerUps |-> powerUps, particles |-> particles,
    activePowerUps |-> activePowerUps, animationId |-> animationId,
    keys |-> keys, mouseX |-> mouseX, touchX |-> touchX, isTouch |-> isTouch,
    localStorage |-> localStorage, frames |-> frames, timeouts |-> timeouts,
    last |-> last ]

\* The record of a handler that has done nothing yet, entered in s
NoEvents(s, op, dt) == [
    op        |-> op,         \* the handler
    dt        |-> dt,         \* deltaTime of the tick it ran, ms (-1: no tick)
    pre       |-> [gameState |-> s.gameState, lives |-> s.gameStats.lives,
                   combo |-> s.gameStats.combo, score |-> s.gameStats.score,
                   balls |-> Len(s.balls), timeouts |-> Len(s.timeouts),
                   active |-> DOMAIN s.activePowerUps,
                   width |-> s.paddle.width],
    hits      |-> << >>,      \* block hits, in order
    paddleHits |-> 0,         \* paddle reflections
    lost      |-> 0,          \* balls culled at the bottom edge
    allLost   |-> FALSE,      \* the all-balls-lost branch ran
    pickups   |-> << >>,      \* power-ups picked up, in order
    expired   |-> {},         \* power-up types whose timer ran out
    launched  |-> 0,          \* launchBall calls
    scheduled |-> 0,          \* setTimeout calls
    states    |-> << >>,      \* the values assigned to gameState, in order
    completed |-> FALSE ]     \* checkGameState found no undestroyed block

\* The world of handler op entered in s, with the tape rnd
Call(s, op, dt, rnd) == [
    gameState |-> s.gameState, gameStats |-> s.gameStats,
    currentLevel |-> s.currentLevel, balls |-> s.balls, paddle |-> s.paddle,
    blocks |-> s.blocks, powerUps |-> s.powerUps, particles |-> s.particles,
    activePowerUps |-> s.activePowerUps, animationId |-> s.animationId,
    keys |-> s.keys, mouseX |-> s.mouseX, touchX |-> s.touchX,
    isTouch |-> s.isTouch, localStorage |-> s.localStorage,
    frames |-> s.frames, timeouts |-> s.timeouts,
    last |-> NoEvents(s, op, dt),
    rnd |-> rnd, draws |-> 0 ]

World(op, dt, rnd) == Call(State, op, dt, rnd)

\* The state is the one the world w holds
IsState(w) ==
    /\ gameState = w.gameState
    /\ gameStats = w.gameStats
    /\ currentLevel = w.currentLevel
    /\ balls = w.balls
    /\ paddle = w.paddle
    /\ blocks = w.blocks
    /\ powerUps = w.powerUps
    /\ particles = w.particles
    /\ activePowerUps = w.activePowerUps
    /\ animationId = w.animationId
    /\ keys = w.keys
    /\ mouseX = w.mouseX
    /\ touchX = w.touchX
    /\ isTouch = w.isTouch
    /\ localStorage = w.localStorage
    /\ frames = w.frames
    /\ timeouts = w.timeouts
    /\ last = w.last

\* The engine's fields and the browser's queues, without the inputs the
\* listeners record
Engine(s) == [
    gameState |-> s.gameState, gameStats |-> s.gameStats,
    currentLevel |-> s.currentLevel, balls |-> s.balls, paddle |-> s.paddle,
    blocks |-> s.blocks, powerUps |-> s.powerUps, particles |-> s.particles,
    activePowerUps |-> s.activePowerUps, animationId |-> s.animationId,
    localStorage |-> s.localStorage, frames |-> s.frames,
    timeouts |-> s.timeouts ]

\* The handler's world becomes the next state.  The history keeps
\* describing the last handler that changed the engine or the queues: one
\* that only records an input, or does nothing, leaves it as it was.
Commit(w) ==
    /\ gameState' = w.gameState
    /\ gameStats' = w.gameStats
    /\ currentLevel' = w.currentLevel
    /\ balls' = w.balls
    /\ paddle' = w.paddle
    /\ blocks' = w.blocks
    /\ powerUps' = w.powerUps
    /\ particles' = w.particles
    /\ activePowerUps' = w.activePowerUps
    /\ animationId' = w.animationId
    /\ keys' = w.keys
    /\ mouseX' = w.mouseX
    /\ touchX' = w.touchX
    /\ isTouch' = w.isTouch
    /\ localStorage' = w.localStorage
    /\ frames' = w.frames
    /\ timeouts' = w.timeouts
    /\ last' = IF Engine(w) = Engine(State) THEN last ELSE w.last

\* Math.random(): the next draw of the tape, in thousandths
random(w) == w.rnd[(w.draws % Len(w.rnd)) + 1]
drawn(w) == [w EXCEPT !.draws = @ + 1]

\* gameUtils.randomBetween(min, max) for the draw u
randomBetween(min, max, u) == Quot(u * (max - min), 1000) + min

Tape0 == CHOOSE t \in Tapes : TRUE

-----------------------------------------------------------------------------
(* Construction *)

\* getInitialStats()
getInitialStats(w) ==
    LET savedHighScore == w.localStorage
        truthy == savedHighScore.present /\ savedHighScore.value # << >>
    IN  [score |-> 0, lives |-> 3, level |-> 1, combo |-> 0,
         highScore |-> IF truthy THEN parseInt(savedHighScore.value) ELSE 0]

\* createPaddle()
createPaddle ==
    [x |-> Quot(config.canvas.width, 2) - Quot(config.paddle.width, 2),
     width |-> config.paddle.width]

\* The cells of the grid, row-major as the loops of createLevel visit them
Cells == { << row, col >> : row \in 0..(config.blocks.rows - 1),
                            col \in 0..(config.blocks.cols - 1) }
CellOrder(c) == c[1] * config.blocks.cols + c[2]

\* The block createLevel makes for cell (row, col) of level levelNumber
createBlock(levelNumber, row, col, color) ==
    LET cols    == config.blocks.cols
        width   == config.blocks.width
        height  == config.blocks.height
        padding == config.blocks.padding
        startX  == Quot(config.canvas.width - (cols * (width + padding) - padding), 2)
        startY  == Px(80)
        health  == Min(3, 1 + (levelNumber \div 3))
    IN  [ x |-> startX + col * (width + padding),
          y |-> startY + row * (height + padding),
          width |-> width, height |-> height,
          color |-> color,
          health |-> health, maxHealth |-> health,
          points |-> 10 * (row + 1),
          powerUpChance |-> 150 + (levelNumber - 1) * 50,
          destroyed |-> FALSE ]

\* The populated cells in row-major order
RECURSIVE SortCells(_)
SortCells(cells) ==
    IF cells = {} THEN << >>
    ELSE LET c == CHOOSE c \in cells : \A d \in cells : CellOrder(c) <= CellOrder(d)
         IN  << c >> \o SortCells(cells \ {c})

\* createLevel(levelNumber).  layout stands for the draws of Math.random()
\* in the loops: the cells that are not skipped and the colour drawn for
\* the blocks.
createLevel(levelNumber, layout) ==
    LET order == SortCells(layout.cells)
    IN  [ id |-> levelNumber,
          ballSpeed |-> config.ball.speed + (levelNumber - 1) * Px(20),
          powerUpChance |-> 150 + (levelNumber - 1) * 50,
          blocks |-> [ i \in 1..Len(order) |->
                         createBlock(levelNumber, order[i][1], order[i][2],
                                     config.blocks.colors[layout.color]) ] ]

\* The cells of the grid the model populates (the code fills the 6 x 10
\* grid at level 1 and skips each cell with probability 0.1 above it): two
\* blocks side by side in the top row and one lower and far from them, so that a
\* level can be played to its end.
GridCells == { << 0, 5 >>, << 0, 6 >>, << 3, 9 >> }
Layouts == { [cells |-> GridCells, color |-> 1] }

-----------------------------------------------------------------------------
(* gameUtils.ts: collision tests and reflection *)

\* ballPaddleCollision(ball, paddle)
ballPaddleCollision(ball, pad) ==
    LET radius       == config.ball.radius
        ballBottom   == ball.y + radius
        ballTop      == ball.y - radius
        ballLeft     == ball.x - radius
        ballRight    == ball.x + radius
        paddleTop    == PaddleY
        paddleBottom == PaddleY + PaddleHeight
        paddleLeft   == pad.x
        paddleRight  == pad.x + pad.width
    IN  /\ ballBottom >= paddleTop
        /\ ballTop <= paddleBottom
        /\ ballRight >= paddleLeft
        /\ ballLeft <= paddleRight

\* ballBlockCollision(ball, block)
ballBlockCollision(ball, block) ==
    IF block.destroyed THEN FALSE
    ELSE LET radius      == config.ball.radius
             ballLeft    == ball.x - radius
             ballRight   == ball.x + radius
             ballTop     == ball.y - radius
             ballBottom  == ball.y + radius
             blockLeft   == block.x
             blockRight  == block.x + block.width
             blockTop    == block.y
             blockBottom == block.y + block.height
         IN  /\ ballRight >= blockLeft
             /\ ballLeft <= blockRight
             /\ ballBottom >= blockTop
             /\ ballTop <= blockBottom

\* calculateBallPaddleReflection(ball, paddle): the new velocity.  The hit
\* position, in [-1, 1], is taken in quarters (rounded toward the centre),
\* so the angle normalizedHit * PI / 3 is a multiple of 15 degrees.
calculateBallPaddleReflection(ball, pad) ==
    LET paddleCenter  == pad.x + Quot(pad.width, 2)
        hitPosition   == Quot((ball.x - paddleCenter) * 4, Quot(pad.width, 2))
        normalizedHit == Max(-4, Min(4, hitPosition))
        speed         == Sqrt(ball.vx * ball.vx + ball.vy * ball.vy)
    IN  [ vx |-> Quot(Sin15(normalizedHit) * speed, 1000),
          vy |-> -Quot(Cos15(normalizedHit) * speed, 1000) ]

\* calculateBlockCollisionSide(ball, block).  absDx / width > absDy / height
\* is compared without dividing.
calculateBlockCollisionSide(ball, block) ==
    LET blockCenterX == block.x + Quot(block.width, 2)
        blockCenterY == block.y + Quot(block.height, 2)
        dx    == ball.x - blockCenterX
        dy    == ball.y - blockCenterY
        absDx == Abs(dx)
        absDy == Abs(dy)
    IN  IF absDx * block.height > absDy * block.width
        THEN (IF dx > 0 THEN "right" ELSE "left")
        ELSE (IF dy > 0 THEN "bottom" ELSE "top")

\* createParticles(position, count, color, speed, life): count particles of
\* the given life
createParticles(count, life) ==
    [ i \in 1..count |-> [life |-> life, maxLife |-> life] ]

\* updateParticles(particles, deltaTime)
updateParticles(ps, dt) ==
    SelectSeq([ i \in 1..Len(ps) |-> [ps[i] EXCEPT !.life = @ - dt] ],
              LAMBDA p : p.life > 0)

-----------------------------------------------------------------------------
(* The loop: requestAnimationFrame, start, stop *)

\* this.animationId = requestAnimationFrame(this.gameLoop): the browser
\* holds one more callback, under a new id.  A callback that was pending
\* under the id animationId had is an orphan from now on: no later
\* cancelAnimationFrame(this.animationId) names it.
requestAnimationFrame(w) ==
    [ w EXCEPT !.frames = [ held |-> TRUE,
                            orphans |-> @.orphans + (IF @.held THEN 1 ELSE 0) ],
               !.animationId = 1 ]

\* this.gameState = state
setGameState(w, state) ==
    [ w EXCEPT !.gameState = state, !.last.states = Append(@, state) ]

\* A variant of stop: the id is forgotten and the callback not cancelled
stopUncancelled(w) == [w EXCEPT !.animationId = 0]

\* stop(): cancelAnimationFrame(this.animationId) removes the callback of
\* that id if it is still pending
stop(w) ==
    IF w.animationId # 0
    THEN [w EXCEPT !.frames.held = FALSE, !.animationId = 0]
    ELSE w

\* The number of frame callbacks pending
Pending(f) == f.orphans + (IF f.held THEN 1 ELSE 0)

\* new Map()
NoPowerUps == [ t \in {} |-> 0 ]

\* launchBall()
launchBall(w) ==
    LET ball == [ x  |-> w.paddle.x + Quot(w.paddle.width, 2),
                  y  |-> PaddleY - config.ball.radius - Px(5),
                  vx |-> randomBetween(Px(-100), Px(100), random(w)),
                  vy |-> -w.currentLevel.ballSpeed ]
    IN  [ drawn(w) EXCEPT !.balls = Append(@, ball),
                          !.last.launched = @ + 1 ]

\* resetLevel()
resetLevel(w) ==
    [ w EXCEPT !.balls = << >>,
               !.powerUps = << >>,
               !.particles = << >>,
               !.activePowerUps = NoPowerUps,
               !.blocks = [ i \in 1..Len(w.currentLevel.blocks) |-> i ],
               !.paddle = createPaddle ]

-----------------------------------------------------------------------------
(* Block hits and power-ups *)

\* A variant of adjustColorAlpha: the colour left as it is
adjustColorAlphaSame(color, health, maxHealth) == color

\* adjustColorAlpha(color, alpha), alpha = health / maxHealth
adjustColorAlpha(color, health, maxHealth) ==
    LET opacity == (health * 255) \div maxHealth
    IN  color \o Hex2(opacity)

\* createPowerUp(position)
createPowerUp(w, x, y) ==
    LET type == PowerUpTypes[((random(w) * Len(PowerUpTypes)) \div 1000) + 1]
    IN  [ drawn(w) EXCEPT !.powerUps = Append(@, [x |-> x, y |-> y, type |-> type]) ]

\* The block this.blocks[k] refers to
BlockAt(w, k) == w.currentLevel.blocks[w.blocks[k]]

\* Variants of comboMultiplier: the multiplier taken from the combo before
\* its increment, and the multiplier without its cap
comboMultiplierBeforeIncrement(combo) == Min(5, ((combo - 1) \div 3) + 1)
comboMultiplierUncapped(combo) == (combo \div 3) + 1

\* const comboMultiplier = Math.min(5, Math.floor(combo / 3) + 1)
comboMultiplier(combo) == Min(5, (combo \div 3) + 1)

\* The ball after the flip of handleBlockCollision: vy on a hit from the
\* top or the bottom, vx from a side
reflectOffBlock(ball, block) ==
    IF calculateBlockCollisionSide(ball, block) \in {"top", "bottom"}
    THEN [ball EXCEPT !.vy = -@]
    ELSE [ball EXCEPT !.vx = -@]

\* "Damage block": health--, and destroyed or the colour faded
\* A variant of the damage: the block is not marked destroyed
damageBlockUnmarked(block) == [block EXCEPT !.health = @ - 1]

damageBlock(block) ==
    IF block.health - 1 <= 0
    THEN [block EXCEPT !.health = @ - 1, !.destroyed = TRUE]
    ELSE [block EXCEPT !.health = @ - 1,
                       !.color = adjustColorAlpha(block.color, block.health - 1,
                                                  block.maxHealth)]

\* "Update combo and score", with the block damaged
hitBlock(w, k) ==
    LET block == BlockAt(w, k)
        combo == w.gameStats.combo + 1
        score == w.gameStats.score + block.points * comboMultiplier(combo)
    IN  [ w EXCEPT !.currentLevel.blocks[w.blocks[k]] = damageBlock(block),
                   !.gameStats.combo = combo,
                   !.gameStats.score = score,
                   !.last.hits = Append(@,
                       [ block |-> w.blocks[k],
                         before |-> block, after |-> damageBlock(block),
                         scoreBefore |-> w.gameStats.score,
                         score |-> score,
                         comboBefore |-> w.gameStats.combo,
                         combo |-> combo ]) ]

\* "Chance to drop power-up": Math.random() < block.powerUpChance
dropPowerUp(w, block) ==
    IF random(w) < block.powerUpChance
    THEN createPowerUp(drawn(w), block.x + Quot(block.width, 2),
                                 block.y + Quot(block.height, 2))
    ELSE drawn(w)

\* if (block.health <= 0): particles and the chance of a power-up
destroyBlock(w, k) ==
    IF BlockAt(w, k).destroyed
    THEN dropPowerUp(
             [ w EXCEPT !.particles =
                   @ \o createParticles(config.particles.count,
                                        config.particles.life) ],
             BlockAt(w, k))
    ELSE w

\* handleBlockCollision(ball, block), block = this.blocks[k]; cx holds the
\* world and the ball
handleBlockCollision(cx, k) ==
    IF BlockAt(cx.w, k).destroyed THEN cx
    ELSE [ w    |-> destroyBlock(hitBlock(cx.w, k), k),
           ball |-> reflectOffBlock(cx.ball, BlockAt(cx.w, k)) ]

\* spawnExtraBalls(): two balls at 45 and 90 degrees, each on the side the
\* draw gives
RECURSIVE spawnExtraBallsFrom(_, _, _)
spawnExtraBallsFrom(w, originalBall, i) ==
    IF i >= 2 THEN w
    ELSE LET sign  == IF random(w) > 500 THEN 1 ELSE -1
             k     == 3 * (i + 1)
             speed == Sqrt(originalBall.vx * originalBall.vx
                           + originalBall.vy * originalBall.vy)
             newBall == [ x  |-> originalBall.x,
                          y  |-> originalBall.y,
                          vx |-> Quot(Sin15(sign * k) * speed, 1000),
                          vy |-> -Quot(Cos15(k) * speed, 1000) ]
         IN  spawnExtraBallsFrom([drawn(w) EXCEPT !.balls = Append(@, newBall)],
                                 originalBall, i + 1)

\* A variant of spawnExtraBalls: one ball only
spawnOneExtraBall(w) ==
    IF Len(w.balls) = 0 THEN w ELSE spawnExtraBallsFrom(w, w.balls[1], 1)

spawnExtraBalls(w) ==
    IF Len(w.balls) = 0 THEN w ELSE spawnExtraBallsFrom(w, w.balls[1], 0)

\* Map.prototype.set
MapSet(m, key, value) ==
    [ t \in DOMAIN m \cup {key} |-> IF t = key THEN value ELSE m[t] ]
\* Map.prototype.delete
MapDelete(m, key) == [ t \in DOMAIN m \ {key} |-> m[t] ]

\* A variant of extendedWidth: the width grows without the cap
extendedWidthUncapped(width) == Quot(width * 15, 10)

\* Math.min(this.config.paddle.maxWidth, this.paddle.width * 1.5)
extendedWidth(width) == Min(config.paddle.maxWidth, Quot(width * 15, 10))

\* A variant of activatePowerUp: the duration is added to the time a timer
\* of the type has left
activatePowerUpStacking(w, powerUp) ==
    LET w1 == [ w EXCEPT !.activePowerUps =
                    MapSet(@, powerUp.type,
                        (IF powerUp.type \in DOMAIN @ THEN @[powerUp.type] ELSE 0)
                            + config.powerUps.duration) ]
        w2 == CASE powerUp.type = MULTI_BALL -> spawnExtraBalls(w1)
                [] powerUp.type = PADDLE_EXTEND ->
                     [ w1 EXCEPT !.paddle.width = extendedWidth(@) ]
                [] powerUp.type = BALL_SLOW ->
                     [ w1 EXCEPT !.balls =
                           [ i \in 1..Len(w1.balls) |->
                               [ w1.balls[i] EXCEPT !.vx = Quot(@ * 7, 10),
                                                    !.vy = Quot(@ * 7, 10) ] ] ]
                [] powerUp.type = BONUS_POINTS ->
                     [ w1 EXCEPT !.gameStats.score = @ + 500 ]
    IN  [ w2 EXCEPT !.particles = @ \o createParticles(6, 600),
                    !.last.pickups = Append(@,
                        [ type |-> powerUp.type,
                          wasActive |-> powerUp.type \in DOMAIN w.activePowerUps,
                          widthBefore |-> w.paddle.width,
                          width |-> w2.paddle.width,
                          timeLeft |-> w2.activePowerUps[powerUp.type],
                          ballsBefore |-> Len(w.balls),
                          balls |-> Len(w2.balls),
                          scoreBefore |-> w.gameStats.score,
                          score |-> w2.gameStats.score ]) ]

\* activatePowerUp(powerUp)
activatePowerUp(w, powerUp) ==
    LET w1 == [ w EXCEPT !.activePowerUps =
                    MapSet(@, powerUp.type, config.powerUps.duration) ]
        w2 == CASE powerUp.type = MULTI_BALL -> spawnExtraBalls(w1)
                [] powerUp.type = PADDLE_EXTEND ->
                     [ w1 EXCEPT !.paddle.width = extendedWidth(@) ]
                [] powerUp.type = BALL_SLOW ->
                     [ w1 EXCEPT !.balls =
                           [ i \in 1..Len(w1.balls) |->
                               [ w1.balls[i] EXCEPT !.vx = Quot(@ * 7, 10),
                                                    !.vy = Quot(@ * 7, 10) ] ] ]
                [] powerUp.type = BONUS_POINTS ->
                     [ w1 EXCEPT !.gameStats.score = @ + 500 ]
    IN  [ w2 EXCEPT !.particles = @ \o createParticles(6, 600),
                    !.last.pickups = Append(@,
                        [ type |-> powerUp.type,
                          wasActive |-> powerUp.type \in DOMAIN w.activePowerUps,
                          widthBefore |-> w.paddle.width,
                          width |-> w2.paddle.width,
                          timeLeft |-> w2.activePowerUps[powerUp.type],
                          ballsBefore |-> Len(w.balls),
                          balls |-> Len(w2.balls),
                          scoreBefore |-> w.gameStats.score,
                          score |-> w2.gameStats.score ]) ]

\* A variant of deactivatePowerUp: the paddle keeps its width
deactivatePowerUpKeepWidth(w, type) ==
    CASE type = BALL_SLOW ->
           [ w EXCEPT !.balls =
                 [ i \in 1..Len(w.balls) |->
                     [ w.balls[i] EXCEPT !.vx = Quot(@ * 143, 100),
                                         !.vy = Quot(@ * 143, 100) ] ] ]
      [] OTHER -> w

\* deactivatePowerUp(type)
deactivatePowerUp(w, type) ==
    CASE type = PADDLE_EXTEND -> [ w EXCEPT !.paddle.width = config.paddle.width ]
      [] type = BALL_SLOW ->
           [ w EXCEPT !.balls =
                 [ i \in 1..Len(w.balls) |->
                     [ w.balls[i] EXCEPT !.vx = Quot(@ * 143, 100),
                                         !.vy = Quot(@ * 143, 100) ] ] ]
      [] OTHER -> w

-----------------------------------------------------------------------------
(* One tick: update(deltaTime) and its steps; dt is deltaTime in ms *)

\* gameOver()
gameOver(w) == stop(setGameState(w, GAME_OVER))

\* updatePaddle(deltaTime)
updatePaddle(w, dt) ==
    LET x0     == w.paddle.x
        step   == Travel(config.paddle.speed, dt)
        left   == "ArrowLeft" \in w.keys \/ "a" \in w.keys
        right  == "ArrowRight" \in w.keys \/ "d" \in w.keys
        targetX ==
            IF w.isTouch THEN w.touchX - Quot(w.paddle.width, 2)
            ELSE IF w.mouseX > 0 THEN w.mouseX - Quot(w.paddle.width, 2)
            ELSE x0 - (IF left THEN step ELSE 0) + (IF right THEN step ELSE 0)
    IN  [ w EXCEPT !.paddle.x =
              clamp(targetX, 0, config.canvas.width - w.paddle.width) ]

\* The loop over this.blocks of updateBalls, from index k on
RECURSIVE collideBlocks(_, _)
collideBlocks(cx, k) ==
    IF k > Len(cx.w.blocks) THEN cx
    ELSE collideBlocks(
             IF ballBlockCollision(cx.ball, BlockAt(cx.w, k))
             THEN handleBlockCollision(cx, k)
             ELSE cx,
             k + 1)

\* "Limit ball speed"
limitBallSpeed(ball) ==
    LET max == config.physics.maxBallSpeed
    IN  IF ball.vx * ball.vx + ball.vy * ball.vy > max * max
        THEN LET speed == Magnitude(ball.vx, ball.vy)
             IN  [ ball EXCEPT !.vx = Quot(ball.vx * max, speed),
                               !.vy = Quot(ball.vy * max, speed) ]
        ELSE ball

\* "Update position"
moveBall(ball, dt) ==
    [ ball EXCEPT !.x = @ + Travel(ball.vx, dt),
                  !.y = @ + Travel(ball.vy, dt) ]

\* A variant of the side walls: the ball is turned round where it is
bounceSideWallsUnclamped(ball) ==
    IF ball.x <= config.ball.radius
           \/ ball.x >= config.canvas.width - config.ball.radius
    THEN [ ball EXCEPT !.vx = -@ ]
    ELSE ball

\* "Wall collisions": the left and the right wall
bounceSideWalls(ball) ==
    LET radius == config.ball.radius
        width  == config.canvas.width
    IN  IF ball.x <= radius \/ ball.x >= width - radius
        THEN [ ball EXCEPT !.vx = -@, !.x = clamp(ball.x, radius, width - radius) ]
        ELSE ball

\* "Wall collisions": the top wall
bounceTopWall(ball) ==
    IF ball.y <= config.ball.radius
    THEN [ ball EXCEPT !.vy = -@, !.y = config.ball.radius ]
    ELSE ball

\* The ball with the velocity calculateBallPaddleReflection gives
reflectOffPaddle(ball, pad) ==
    [ ball EXCEPT !.vx = calculateBallPaddleReflection(ball, pad).vx,
                  !.vy = calculateBallPaddleReflection(ball, pad).vy ]

\* A variant of the paddle collision: the combo is kept
collidePaddleKeepCombo(cx) ==
    IF ballPaddleCollision(cx.ball, cx.w.paddle) /\ cx.ball.vy > 0
    THEN [ w    |-> [ cx.w EXCEPT !.last.paddleHits = @ + 1 ],
           ball |-> reflectOffPaddle(cx.ball, cx.w.paddle) ]
    ELSE cx

\* "Paddle collision"
collidePaddle(cx) ==
    IF ballPaddleCollision(cx.ball, cx.w.paddle) /\ cx.ball.vy > 0
    THEN [ w    |-> [ cx.w EXCEPT !.gameStats.combo = 0,
                                  !.last.paddleHits = @ + 1 ],
           ball |-> reflectOffPaddle(cx.ball, cx.w.paddle) ]
    ELSE cx

\* The end of the filter callback: the speed limited, the ball kept
keepBall(cx) ==
    [ w |-> cx.w, ball |-> limitBallSpeed(cx.ball), keep |-> TRUE ]

\* The filter callback from "Bottom boundary" on
cullOrCollide(w, ball) ==
    IF ball.y > config.canvas.height + config.ball.radius
    THEN [ w |-> [w EXCEPT !.last.lost = @ + 1], ball |-> ball, keep |-> FALSE ]
    ELSE keepBall(collideBlocks(collidePaddle([w |-> w, ball |-> ball]), 1))

\* The body of the filter callback of updateBalls for one ball: the world
\* and the ball after it, and whether the ball is kept
updateBall(w, ball, dt) ==
    cullOrCollide(w, bounceTopWall(bounceSideWalls(moveBall(ball, dt))))

\* The filter of updateBalls over this.balls, from index i on; r is what
\* the callback gave for ball i
RECURSIVE filterBalls(_, _, _, _)
filterNext(r, dt, i, kept) ==
    filterBalls(r.w, dt, i + 1, IF r.keep THEN Append(kept, r.ball) ELSE kept)

filterBalls(w, dt, i, kept) ==
    IF i > Len(w.balls) THEN [w EXCEPT !.balls = kept]
    ELSE filterNext(updateBall(w, w.balls[i], dt), dt, i, kept)

\* A variant of checkAllBallsLost: the game is over only below zero lives
checkAllBallsLostBelowZero(w) ==
    IF Len(w.balls) = 0
    THEN LET w1 == [ w EXCEPT !.gameStats.lives = @ - 1,
                              !.gameStats.combo = 0,
                              !.last.allLost = TRUE ]
         IN  IF w1.gameStats.lives < 0
             THEN gameOver(w1)
             ELSE [ w1 EXCEPT !.timeouts = Append(@, 1000),
                              !.last.scheduled = @ + 1 ]
    ELSE w

\* A variant of the check: a life is lost with every tick that loses a ball
checkAnyBallLost(w) ==
    IF Len(w.balls) = 0 \/ w.last.lost > 0
    THEN LET w1 == [ w EXCEPT !.gameStats.lives = @ - 1,
                              !.gameStats.combo = 0,
                              !.last.allLost = TRUE ]
         IN  IF w1.gameStats.lives <= 0
             THEN gameOver(w1)
             ELSE [ w1 EXCEPT !.timeouts = Append(@, 1000),
                              !.last.scheduled = @ + 1 ]
    ELSE w

\* "Check if all balls lost": the end of updateBalls.  setTimeout(..., 1000)
\* puts one more callback in the browser's list.
checkAllBallsLost(w) ==
    IF Len(w.balls) = 0
    THEN LET w1 == [ w EXCEPT !.gameStats.lives = @ - 1,
                              !.gameStats.combo = 0,
                              !.last.allLost = TRUE ]
         IN  IF w1.gameStats.lives <= 0
             THEN gameOver(w1)
             ELSE [ w1 EXCEPT !.timeouts = Append(@, 1000),
                              !.last.scheduled = @ + 1 ]
    ELSE w

\* updateBalls(deltaTime)
updateBalls(w, dt) == checkAllBallsLost(filterBalls(w, dt, 1, << >>))

\* isPowerUpCollidingWithPaddle(powerUp)
isPowerUpCollidingWithPaddle(w, powerUp) ==
    /\ powerUp.x < w.paddle.x + w.paddle.width
    /\ powerUp.x + config.powerUps.size > w.paddle.x
    /\ powerUp.y < PaddleY + PaddleHeight
    /\ powerUp.y + config.powerUps.size > PaddleY

\* updatePowerUps(deltaTime): the filter over this.powerUps, from index i on
RECURSIVE filterPowerUps(_, _, _, _)
filterPowerUps(w, dt, i, kept) ==
    IF i > Len(w.powerUps) THEN [w EXCEPT !.powerUps = kept]
    ELSE LET p == [ w.powerUps[i] EXCEPT !.y = @ + Travel(config.powerUps.fallSpeed, dt) ]
         IN  IF p.y > config.canvas.height + config.powerUps.size
             THEN filterPowerUps(w, dt, i + 1, kept)
             ELSE IF isPowerUpCollidingWithPaddle(w, p)
             THEN filterPowerUps(activatePowerUp(w, p), dt, i + 1, kept)
             ELSE filterPowerUps(w, dt, i + 1, Append(kept, p))

updatePowerUps(w, dt) == filterPowerUps(w, dt, 1, << >>)

\* updateActivePowerUps(deltaTime): the loop over the entries of the map,
\* for the types not yet visited
RECURSIVE decayPowerUps(_, _, _)
decayPowerUps(w, dt, types) ==
    IF types = {} THEN w
    ELSE LET type    == CHOOSE t \in types : TRUE
             newTime == w.activePowerUps[type] - dt
             w1 == IF newTime <= 0
                   THEN [ deactivatePowerUp(w, type) EXCEPT
                              !.activePowerUps = MapDelete(@, type),
                              !.last.expired = @ \cup {type} ]
                   ELSE [ w EXCEPT !.activePowerUps = MapSet(@, type, newTime) ]
         IN  decayPowerUps(w1, dt, types \ {type})

updateActivePowerUps(w, dt) == decayPowerUps(w, dt, DOMAIN w.activePowerUps)

\* A variant of the high score update: the new high score is not stored
updateHighScoreInMemory(w) ==
    IF Greater(w.gameStats.score, w.gameStats.highScore)
    THEN [ w EXCEPT !.gameStats.highScore = w.gameStats.score ]
    ELSE w

\* "Update high score"
updateHighScore(w) ==
    IF Greater(w.gameStats.score, w.gameStats.highScore)
    THEN [ w EXCEPT !.gameStats.highScore = w.gameStats.score,
                    !.localStorage = Item(toString(w.gameStats.score)) ]
    ELSE w

\* A variant of checkGameState: the level completes only with one ball
\* in flight
checkGameStateOneBall(w) ==
    updateHighScore(
        IF /\ \A k \in 1..Len(w.blocks) : BlockAt(w, k).destroyed
           /\ Len(w.balls) = 1
        THEN stop(setGameState([ w EXCEPT !.last.completed = TRUE ],
                               LEVEL_COMPLETE))
        ELSE w)

\* checkGameState()
checkGameState(w) ==
    updateHighScore(
        IF \A k \in 1..Len(w.blocks) : BlockAt(w, k).destroyed
        THEN stop(setGameState([ w EXCEPT !.last.completed = TRUE ],
                               LEVEL_COMPLETE))
        ELSE w)

\* this.particles = updateParticles(this.particles, deltaTime)
stepParticles(w, dt) == [ w EXCEPT !.particles = updateParticles(@, dt) ]

\* update(deltaTime)
update(w, dt) ==
    IF w.gameState # PLAYING THEN w
    ELSE checkGameState(
             updateActivePowerUps(
                 stepParticles(
                     updatePowerUps(
                         updateBalls(
                             updatePaddle(w, dt), dt), dt), dt), dt))

\* The end of gameLoop: the next frame is requested while PLAYING
requestNextFrame(w) ==
    IF w.gameState = PLAYING THEN requestAnimationFrame(w) ELSE w

\* gameLoop(): deltaTime is the time since lastTime
gameLoop(w, dt) == requestNextFrame(update([w EXCEPT !.last.dt = dt], dt))

\* A variant of start: the loop is started whether it runs or not
startAgain(w) == gameLoop(w, 0)

\* start(): gameLoop runs at once, with lastTime = now
start(w) == IF w.animationId # 0 THEN w ELSE gameLoop(w, 0)

-----------------------------------------------------------------------------
(* Commands *)

\* startGame()
startGame(w) ==
    start(launchBall(resetLevel(setGameState(w, PLAYING))))

\* resetGame()
resetGame(w, layout) ==
    LET w1 == [ w EXCEPT !.gameStats = getInitialStats(w) ]
        w2 == [ w1 EXCEPT !.currentLevel = createLevel(1, layout) ]
    IN  startGame(resetLevel(w2))

\* resumeGame()
resumeGame(w) == start(setGameState(w, PLAYING))

\* A variant of togglePause: the game pauses from every state but PAUSED
togglePauseAnywhere(w) ==
    IF w.gameState = PAUSED THEN resumeGame(w)
    ELSE stop(setGameState(w, PAUSED))

\* togglePause()
togglePause(w) ==
    IF w.gameState = PLAYING THEN stop(setGameState(w, PAUSED))
    ELSE IF w.gameState = PAUSED THEN resumeGame(w)
    ELSE w

\* A variant of nextLevel: the entities of the level left are kept
nextLevelKeepEntities(w, layout) ==
    LET w1 == [ w EXCEPT !.gameStats.level = @ + 1 ]
        w2 == [ w1 EXCEPT !.currentLevel = createLevel(w1.gameStats.level, layout) ]
        w3 == [ w2 EXCEPT !.blocks = [ i \in 1..Len(w2.currentLevel.blocks) |-> i ] ]
    IN  launchBall(setGameState(w3, PLAYING))

\* nextLevel()
nextLevel(w, layout) ==
    LET w1 == [ w EXCEPT !.gameStats.level = @ + 1 ]
        w2 == [ w1 EXCEPT !.currentLevel = createLevel(w1.gameStats.level, layout) ]
        w3 == setGameState(resetLevel(w2), PLAYING)
    IN  launchBall(w3)

\* handleSpaceKey()
handleSpaceKey(w, layout) ==
    CASE w.gameState = START_SCREEN -> startGame(w)
      [] w.gameState = PLAYING ->
           IF Len(w.balls) = 0 THEN launchBall(w) ELSE w
      [] w.gameState = PAUSED -> resumeGame(w)
      [] w.gameState = LEVEL_COMPLETE -> nextLevel(w, layout)
      [] w.gameState = GAME_OVER -> resetGame(w, layout)
      [] OTHER -> w

\* A variant of the callback: the ball is launched in every state
relaunchAlways(w) == launchBall(w)

\* The callback of setTimeout in updateBalls
relaunch(w) == IF w.gameState = PLAYING THEN launchBall(w) ELSE w

\* The click listener of the canvas
onClick(w) ==
    IF w.gameState = START_SCREEN \/ w.gameState = GAME_OVER
    THEN startGame(w)
    ELSE w

-----------------------------------------------------------------------------
(* The specification: the browser runs one handler at a time *)

\* The tapes to try for a handler, w being the world it leaves with the
\* tape Tape0: when it draws nothing every tape gives the same step, and one
\* tape is tried.
TapesFor(w) == IF w.draws = 0 THEN {Tape0} ELSE Tapes

\* The layouts a handler may draw: only createLevel reads them
LayoutsFor(state) ==
    IF state \in {LEVEL_COMPLETE, GAME_OVER} THEN Layouts
    ELSE { CHOOSE l \in Layouts : TRUE }

\* keydown with e.key === ' '
KeyDownSpace ==
    /\ gameState = LEVEL_COMPLETE => gameStats.level < MaxLevel
    /\ \E layout \in LayoutsFor(gameState) :
       \E rnd \in TapesFor(handleSpaceKey(World("handleSpaceKey", -1, Tape0), layout)) :
           Commit(handleSpaceKey(World("handleSpaceKey", -1, rnd), layout))

\* keydown with e.key === 'Escape'
KeyDownEscape ==
    \E rnd \in TapesFor(togglePause(World("togglePause", -1, Tape0))) :
        Commit(togglePause(World("togglePause", -1, rnd)))

\* The listeners that only record an input
onKeyDown(w, k) == [w EXCEPT !.keys = @ \cup {k}]
onKeyUp(w, k) == [w EXCEPT !.keys = @ \ {k}]
onMouseMove(w, x) == IF ~w.isTouch THEN [w EXCEPT !.mouseX = x] ELSE w
onTouchStart(w) == [w EXCEPT !.isTouch = TRUE]
onTouchMove(w, x) == [w EXCEPT !.touchX = x]

\* keydown of a key updatePaddle reads
KeyDown ==
    \E k \in KeyNames :
        /\ k \notin keys
        /\ Commit(onKeyDown(World("keydown", -1, Tape0), k))

\* keyup
KeyUp ==
    \E k \in keys :
        Commit(onKeyUp(World("keyup", -1, Tape0), k))

\* mousemove on the canvas
MouseMove ==
    \E x \in MouseXs :
        /\ mouseX # x
        /\ Commit(onMouseMove(World("mousemove", -1, Tape0), x))

\* touchstart on the canvas
TouchStart ==
    /\ ~isTouch
    /\ Commit(onTouchStart(World("touchstart", -1, Tape0)))

\* touchmove on the canvas, with a touch
TouchMove ==
    \E x \in TouchXs :
        /\ touchX # x
        /\ Commit(onTouchMove(World("touchmove", -1, Tape0), x))

\* touchend on the canvas
TouchEnd ==
    /\ gameState = LEVEL_COMPLETE => gameStats.level < MaxLevel
    /\ \E layout \in LayoutsFor(gameState) :
       \E rnd \in TapesFor(handleSpaceKey(World("handleSpaceKey", -1, Tape0), layout)) :
           Commit(handleSpaceKey(World("handleSpaceKey", -1, rnd), layout))

\* click on the canvas
Click ==
    /\ gameState = GAME_OVER => gameStats.lives > -MaxOverdraft
    /\ \E rnd \in TapesFor(onClick(World("click", -1, Tape0))) :
           Commit(onClick(World("click", -1, rnd)))

\* The Start Game button of the page, shown on the start screen
StartButton ==
    /\ gameState = START_SCREEN
    /\ \E rnd \in TapesFor(startGame(World("startGame", -1, Tape0))) :
           Commit(startGame(World("startGame", -1, rnd)))

MinDelta == CHOOSE d \in DeltaTimes : \A e \in DeltaTimes : d <= e

\* The frame callback `held` (or an orphan) runs, dt ms after the last
\* frame; the time passes for the timeouts too
onFrame(w, dt, held) ==
    gameLoop([ w EXCEPT
        !.frames = IF held THEN [@ EXCEPT !.held = FALSE]
                   ELSE [@ EXCEPT !.orphans = @ - 1],
        !.timeouts = [ i \in 1..Len(w.timeouts) |-> w.timeouts[i] - dt ] ],
      dt)

\* A frame callback runs.  A timeout that falls due before it has run first.
\* A frame longer than the shortest is taken only while a power-up timer
\* runs.
Frame ==
    \E dt \in DeltaTimes, held \in BOOLEAN :
        /\ IF held THEN frames.held ELSE frames.orphans > 0
        /\ \A i \in 1..Len(timeouts) : timeouts[i] >= dt
        /\ dt = MinDelta \/ DOMAIN activePowerUps # {}
        /\ \E rnd \in TapesFor(onFrame(World("frame", dt, Tape0), dt, held)) :
               Commit(onFrame(World("frame", dt, rnd), dt, held))

\* The callback of the oldest setTimeout runs, the timeout taken off the list
onTimeout(w) == relaunch([w EXCEPT !.timeouts = Tail(@)])

\* The oldest relaunch timeout runs: it is due before the next frame can
\* be, or no frame is pending and any time may pass
RelaunchTimeout ==
    /\ timeouts # << >>
    /\ Pending(frames) = 0 \/ Head(timeouts) < MinDelta
    /\ \E rnd \in TapesFor(onTimeout(World("timeout", -1, Tape0))) :
           Commit(onTimeout(World("timeout", -1, rnd)))

\* destroy(): stop(); the removeEventListener calls name new functions, so
\* they remove no listener, and no clearTimeout is called
destroy(w) == stop(w)

\* The page unmounts and calls destroy()
Destroy ==
    \E rnd \in TapesFor(destroy(World("destroy", -1, Tape0))) :
        Commit(destroy(World("destroy", -1, rnd)))

\* What the page may have stored under 'blockBreakerHighScore': nothing,
\* a number, or a string that is no number
StoredItems == { NoItem, Item(<< "2", "5" >>), Item(<< "a", "b", "c" >>) }

\* new GameEngine(canvas): the fields after the constructor
Constructed(layout, item) ==
    LET s == [ gameState |-> START_SCREEN,
               gameStats |-> getInitialStats([localStorage |-> item]),
               currentLevel |-> createLevel(1, layout),
               balls |-> << >>,
               paddle |-> createPaddle,
               blocks |-> << >>,
               powerUps |-> << >>,
               particles |-> << >>,
               activePowerUps |-> NoPowerUps,
               animationId |-> 0,
               keys |-> {},
               mouseX |-> 0,
               touchX |-> 0,
               isTouch |-> FALSE,
               localStorage |-> item,
               frames |-> [held |-> FALSE, orphans |-> 0],
               timeouts |-> << >> ]
    IN  Call(s, "constructor", -1, Tape0)

Init ==
    \E layout \in Layouts, item \in StoredItems :
        IsState(Constructed(layout, item))

Next ==
    \/ KeyDownSpace
    \/ KeyDownEscape
    \/ KeyDown
    \/ KeyUp
    \/ MouseMove
    \/ TouchStart
    \/ TouchMove
    \/ TouchEnd
    \/ Click
    \/ StartButton
    \/ Frame
    \/ RelaunchTimeout
    \/ Destroy

Spec == Init /\ [][Next]_vars

-----------------------------------------------------------------------------
(* Play: a level from its first frame on.  The player has set the input    *)
(* before the level starts and during play only presses the space key.     *)

\* The points of a full grid
GridPoints ==
    config.blocks.cols *
        SumSeq([ row \in 1..config.blocks.rows |-> 10 * row ])

\* The speeds of two balls are taken for equal when their squares differ
\* by no more than this many thousandths: the sines and cosines have three
\* decimals
SpeedRounding == 5

\* The levels whose start is enumerated, with the combo carried into them
Starts == { [level |-> 1, combo |-> 0],
            [level |-> MaxLevel, combo |-> 0],
            [level |-> MaxLevel, combo |-> CarriedCombo] }

\* What the player did before the level starts: nothing, moved the mouse,
\* holds a key down, or touches the canvas
Intents ==
    { << >> }
    \cup { << [ev |-> "mousemove", x |-> x] >> : x \in MouseXs }
    \cup { << [ev |-> "keydown", key |-> k] >> : k \in KeyNames }
    \cup { << [ev |-> "touchstart"], [ev |-> "touchmove", x |-> x] >> :
             x \in TouchXs }

\* The listener of event e runs in s
Listen(s, e) ==
    LET w == Call(s, e.ev, -1, Tape0)
    IN  CASE e.ev = "mousemove"  -> onMouseMove(w, e.x)
          [] e.ev = "keydown"    -> onKeyDown(w, e.key)
          [] e.ev = "touchstart" -> onTouchStart(w)
          [] e.ev = "touchmove"  -> onTouchMove(w, e.x)

RECURSIVE ListenAll(_, _)
ListenAll(s, es) ==
    IF es = << >> THEN s ELSE ListenAll(Listen(s, Head(es)), Tail(es))

\* The engine in LEVEL_COMPLETE of level n with the combo given, all three
\* lives left and the score of n full grids
Completed(n, combo) ==
    LET score == n * GridPoints
    IN  [ Constructed(CHOOSE l \in Layouts : TRUE, NoItem) EXCEPT
            !.gameState = LEVEL_COMPLETE,
            !.gameStats = [score |-> score, lives |-> 3, level |-> n,
                           combo |-> combo, highScore |-> score],
            !.localStorage = Item(toString(score)) ]

\* The first frame of a level: level 1 after the Start button; a higher
\* level after the space key in LEVEL_COMPLETE and, nextLevel starting no
\* loop, a pause and a resume
LevelStart(st, intent, layout, rnd) ==
    IF st.level = 1
    THEN startGame(Call(ListenAll(Constructed(layout, NoItem), intent),
                        "startGame", -1, rnd))
    ELSE togglePause(Call(
             togglePause(Call(
                 handleSpaceKey(
                     Call(ListenAll(Completed(st.level - 1, st.combo), intent),
                          "handleSpaceKey", -1, rnd),
                     layout),
                 "togglePause", -1, rnd)),
             "togglePause", -1, rnd))

InitPlay ==
    \E st \in Starts, intent \in Intents, layout \in Layouts, rnd \in Tapes :
        IsState(LevelStart(st, intent, layout, rnd))

\* keydown with e.key === ' ' during play
KeyDownSpacePlaying ==
    /\ gameState = PLAYING
    /\ KeyDownSpace

Play ==
    \/ KeyDownSpacePlaying
    \/ Frame
    \/ RelaunchTimeout

SpecPlay == InitPlay /\ [][Play]_vars

-----------------------------------------------------------------------------
(* Commands: the engine from its construction, or from the end of level 1, *)
(* under the player's commands.  The player leaves the paddle where it is, *)
(* presses space and lifts the finger only when the game is not in play,   *)
(* and pauses only when no ball is in flight or the loop stands still.     *)

\* keydown with e.key === ' ' outside play
KeyDownSpaceIdle ==
    /\ gameState # PLAYING
    /\ KeyDownSpace

\* touchend on the canvas outside play
TouchEndIdle ==
    /\ gameState # PLAYING
    /\ TouchEnd

\* keydown with e.key === 'Escape', with no ball in flight or no frame
\* pending when the game is in play
KeyDownEscapeStill ==
    /\ gameState = PLAYING => (balls = << >> \/ Pending(frames) = 0)
    /\ KeyDownEscape

\* start() called while the loop runs
StartRunning ==
    /\ animationId # 0
    /\ Commit(start(World("start", -1, Tape0)))

\* stop() called while the loop is stopped
StopStopped ==
    /\ animationId = 0
    /\ Commit(stop(World("stop", -1, Tape0)))

InitCommands ==
    \/ \E layout \in Layouts, item \in StoredItems :
           IsState(Constructed(layout, item))
    \/ IsState(Completed(1, 0))

Commands ==
    \/ StartButton
    \/ Frame
    \/ RelaunchTimeout
    \/ KeyDownEscapeStill
    \/ KeyDownSpaceIdle
    \/ TouchEndIdle
    \/ Click
    \/ StartRunning
    \/ StopStopped

SpecCommands == InitCommands /\ [][Commands]_vars

-----------------------------------------------------------------------------
(* Advance: the play of a level, and the command that leaves               *)
(* LEVEL_COMPLETE for the next level.                                      *)

\* keydown with e.key === ' ' in LEVEL_COMPLETE
AdvanceBySpace ==
    /\ gameState = LEVEL_COMPLETE
    /\ KeyDownSpace

\* touchend on the canvas in LEVEL_COMPLETE
AdvanceByTouch ==
    /\ gameState = LEVEL_COMPLETE
    /\ TouchEnd

PlayOn ==
    \/ KeyDownSpacePlaying
    \/ Frame
    \/ RelaunchTimeout
    \/ AdvanceBySpace
    \/ AdvanceByTouch

SpecAdvance == InitPlay /\ [][PlayOn]_vars

-----------------------------------------------------------------------------
(* Input: the player sets the input on the start screen, moving the        *)
(* pointer only while no key is down, so that a key that is down was       *)
(* pressed after the last pointer position; the keys stay as they are      *)
(* during play.                                                            *)

\* mousemove on the canvas on the start screen, no key down
MouseMoveFirst ==
    /\ gameState = START_SCREEN
    /\ keys = {}
    /\ MouseMove

\* keydown on the start screen
KeyDownBeforeStart ==
    /\ gameState = START_SCREEN
    /\ KeyDown

\* keyup on the start screen
KeyUpBeforeStart ==
    /\ gameState = START_SCREEN
    /\ KeyUp

InitInput ==
    \E layout \in Layouts : IsState(Constructed(layout, NoItem))

Input ==
    \/ MouseMoveFirst
    \/ KeyDownBeforeStart
    \/ KeyUpBeforeStart
    \/ StartButton
    \/ Frame
    \/ RelaunchTimeout

SpecInput == InitInput /\ [][Input]_vars

-----------------------------------------------------------------------------
(* Unmount: the page may unmount at any time after the Start button; the   *)
(* callbacks the browser still holds run afterwards.                       *)

Unmount ==
    \/ StartButton
    \/ Frame
    \/ RelaunchTimeout
    \/ Destroy

SpecUnmount == InitCommands /\ [][Unmount]_vars

-----------------------------------------------------------------------------
(* Properties *)

\* A frame callback has just run a tick in PLAYING
Ticked == last.op = "frame" /\ last.pre.gameState = PLAYING

\* The hits and pickups of the last handler
Hits == { last.hits[i] : i \in 1..Len(last.hits) }
Pickups == { last.pickups[i] : i \in 1..Len(last.pickups) }

Speed2(ball) == ball.vx * ball.vx + ball.vy * ball.vy

\* C1: a tick that begins in PLAYING with no live ball (the loss has been
\* counted and no ball launched since) leaves lives as they were.
C1_NoSecondDecrement ==
    (Ticked /\ last.pre.balls = 0) => gameStats.lives = last.pre.lives

\* C2: when the relaunch callback has launched its ball, exactly one ball
\* is live.
C2_OneBallRelaunched ==
    (last.op = "timeout" /\ last.launched = 1) => Len(balls) = 1

\* C6: after every tick in PLAYING the paddle lies within the playfield,
\* with the width it has at the end of the tick.
C6_PaddleClamped ==
    Ticked => /\ 0 <= paddle.x
              /\ paddle.x <= config.canvas.width - paddle.width

\* C7: after every tick in PLAYING no live ball is faster than
\* physics.maxBallSpeed.
C7_SpeedLimited ==
    Ticked => \A i \in 1..Len(balls) :
                  Speed2(balls[i]) <= config.physics.maxBallSpeed
                                      * config.physics.maxBallSpeed

\* C3: a tick that loses the last ball with one life left ends with no
\* life, in GAME_OVER, with no relaunch scheduled and no frame callback
\* pending.
C3_LastLifeLost ==
    (Ticked /\ last.allLost /\ last.pre.lives = 1) =>
        /\ gameStats.lives = 0
        /\ gameState = GAME_OVER
        /\ last.scheduled = 0
        /\ Len(timeouts) = last.pre.timeouts
        /\ Pending(frames) = 0

\* The last life has just been lost along with a ball
C3_Witness ==
    Ticked /\ last.allLost /\ last.pre.lives = 1 /\ last.lost > 0

\* C4: on blocks worth 10 points the first three hits after the combo was 0
\* add 10 each and the fourth adds 20.
C4_FirstFourHits ==
    \A h \in Hits :
        (h.before.points = 10 /\ h.comboBefore < 4) =>
            h.score - h.scoreBefore = << 10, 10, 10, 20 >>[h.comboBefore + 1]

\* C4, as the code scores: on blocks worth 10 points the first two hits
\* after the combo was 0 add 10 each, the third and the fourth add 20 each.
C4_FirstFourHitsAsScored ==
    \A h \in Hits :
        (h.before.points = 10 /\ h.comboBefore < 4) =>
            h.score - h.scoreBefore = << 10, 10, 20, 20 >>[h.comboBefore + 1]

\* The fourth consecutive hit, on a block worth 10 points
C4_Witness ==
    \E h \in Hits : h.before.points = 10 /\ h.comboBefore = 3

\* C5: every hit adds block.points * min(5, floor(combo / 3) + 1) to the
\* score, combo counted after its increment, so between one and five times
\* the points.
C5_ScorePerHit ==
    \A h \in Hits :
        /\ h.combo = h.comboBefore + 1
        /\ h.score - h.scoreBefore =
               h.before.points * Min(5, (h.combo \div 3) + 1)
        /\ h.score - h.scoreBefore >= h.before.points
        /\ h.score - h.scoreBefore <= 5 * h.before.points

\* A hit at a combo for which floor(combo / 3) + 1 exceeds 5
C5_Witness ==
    \E h \in Hits : h.combo >= 15

\* C8: a block made with health 2 is not destroyed by its first hit, which
\* leaves it health 1 and another colour, and is destroyed by its second;
\* a destroyed block is hit by no ball, and collides with none.
C8_TwoHits ==
    /\ \A h \in Hits :
           h.before.maxHealth = 2 =>
               /\ ~h.before.destroyed
               /\ h.before.health = 2 =>
                      /\ h.after.health = 1
                      /\ ~h.after.destroyed
                      /\ h.after.color # h.before.color
               /\ h.before.health = 1 => h.after.destroyed
               /\ h.before.health \in {1, 2}
    /\ \A k \in 1..Len(blocks), i \in 1..Len(balls) :
           BlockAt(State, k).destroyed =>
               ~ballBlockCollision(balls[i], BlockAt(State, k))

\* The second hit of a block made with health 2
C8_Witness ==
    \E h \in Hits : /\ h.before.maxHealth = 2
                    /\ h.before.health = 1
                    /\ h.after.destroyed

\* C9: a paddle-extend picked up while one is active leaves the paddle
\* min(maxWidth, 1.5 * base width) wide and sets the timer to the full
\* duration.
C9_ExtendTwice ==
    \A p \in Pickups :
        (p.type = PADDLE_EXTEND /\ p.wasActive) =>
            /\ p.width = Min(config.paddle.maxWidth,
                             Quot(config.paddle.width * 15, 10))
            /\ p.timeLeft = config.powerUps.duration

\* A paddle-extend picked up while one is active
C9_Witness ==
    \E p \in Pickups : p.type = PADDLE_EXTEND /\ p.wasActive

\* The tick destroyed a block and left none undestroyed
LastBlockDestroyed ==
    /\ Ticked
    /\ \E h \in Hits : h.after.destroyed
    /\ \A k \in 1..Len(blocks) : BlockAt(State, k).destroyed

\* C10: the tick that destroys the last undestroyed block ends in
\* LEVEL_COMPLETE.
C10_LevelComplete == LastBlockDestroyed => gameState = LEVEL_COMPLETE

\* The last block is destroyed with a life lost before, several balls in
\* flight and a power-up falling
C10_Witness ==
    /\ LastBlockDestroyed
    /\ gameStats.lives < 3
    /\ Len(balls) > 1
    /\ Len(powerUps) > 0

-----------------------------------------------------------------------------
(* Properties of the commands *)

\* The item holds a non-negative integer in decimal digits
WellFormed(item) ==
    /\ item.present
    /\ item.value # << >>
    /\ \A i \in 1..Len(item.value) : IsDigit(item.value[i])

\* C11: a tick in PLAYING that ends with the score above the high score it
\* began with ends with the high score, in memory and in localStorage,
\* equal to the score; and while localStorage holds a well-formed number
\* no step (tick, game over, restart) lowers the high score.
C11_HighScoreKept ==
    [][ /\ ( /\ gameState = PLAYING
             /\ last'.op = "frame"
             /\ gameStats.highScore # NaN
             /\ gameStats'.score > gameStats.highScore )
          => /\ gameStats'.highScore = gameStats'.score
             /\ localStorage' = Item(toString(gameStats'.score))
        /\ WellFormed(localStorage)
          => /\ gameStats'.highScore # NaN
             /\ gameStats'.highScore >= gameStats.highScore ]_vars

\* The game was restarted with the space key after a game over, the high
\* score above the number the page had stored
C11_Witness ==
    /\ last.op = "handleSpaceKey"
    /\ last.pre.gameState = GAME_OVER
    /\ gameStats.score = 0
    /\ gameStats.highScore > 25
    /\ localStorage = Item(toString(gameStats.highScore))


\* C12: on the start screen, with the stored value missing or no number,
\* the high score is 0.
C12_StartsAtZero ==
    (gameState = START_SCREEN /\ ~WellFormed(localStorage))
        => gameStats.highScore = 0

\* The changes of state the commands and the loop are to make
Transitions ==
    { << START_SCREEN, PLAYING >>,
      << PLAYING, PAUSED >>,
      << PAUSED, PLAYING >>,
      << PLAYING, LEVEL_COMPLETE >>,
      << PLAYING, GAME_OVER >>,
      << LEVEL_COMPLETE, PLAYING >>,
      << GAME_OVER, PLAYING >> }

\* The values gameState had in the last handler: the one it began with and
\* the ones assigned, in order
StatePath(l) == << l.pre.gameState >> \o l.states

\* C13: every assignment of a command, a tick or a timer callback changes
\* the state only along START_SCREEN -> PLAYING, PLAYING -> PAUSED,
\* PAUSED -> PLAYING, PLAYING -> LEVEL_COMPLETE, PLAYING -> GAME_OVER,
\* LEVEL_COMPLETE -> PLAYING and GAME_OVER -> PLAYING; the state changes by
\* these assignments only, and VICTORY is never reached.
C13_Transitions ==
    [][ /\ gameState' # VICTORY
        /\ gameState' # gameState
             => /\ last'.pre.gameState = gameState
                /\ last'.states # << >>
                /\ last'.states[Len(last'.states)] = gameState'
        /\ \A i \in 1..Len(last'.states) :
               StatePath(last')[i + 1] # StatePath(last')[i]
                 => << StatePath(last')[i], StatePath(last')[i + 1] >>
                        \in Transitions ]_vars

\* The escape key resumed the game and the tick start() runs ended it:
\* PAUSED -> PLAYING -> GAME_OVER in one handler
C13_Witness ==
    /\ last.op = "togglePause"
    /\ StatePath(last) = << PAUSED, PLAYING, GAME_OVER >>
    /\ gameState = GAME_OVER

\* C14: a command that leaves GAME_OVER (the space key, a touch end or a
\* click on the canvas) ends in PLAYING with score 0, 3 lives, level 1 and
\* combo 0, the blocks of level 1 all there, none destroyed or damaged, and
\* exactly one ball.
C14_Restart ==
    [][ (gameState = GAME_OVER /\ gameState' # GAME_OVER)
          => /\ gameState' = PLAYING
             /\ gameStats'.score = 0
             /\ gameStats'.lives = 3
             /\ gameStats'.level = 1
             /\ gameStats'.combo = 0
             /\ Len(blocks') = Cardinality(GridCells)
             /\ \A k \in 1..Len(blocks') :
                    /\ ~BlockAt(State', k).destroyed
                    /\ BlockAt(State', k).health = BlockAt(State', k).maxHealth
             /\ Len(balls') = 1 ]_vars

\* C15: the command that leaves LEVEL_COMPLETE ends in PLAYING with the
\* level one higher, the score, the lives and the high score as they were,
\* a new set of blocks none of which is destroyed, no power-up, particle or
\* power-up timer, the paddle at its base width and exactly one ball.
C15_Advance ==
    [][ (gameState = LEVEL_COMPLETE /\ gameState' # LEVEL_COMPLETE)
          => /\ gameState' = PLAYING
             /\ gameStats'.level = gameStats.level + 1
             /\ gameStats'.score = gameStats.score
             /\ gameStats'.lives = gameStats.lives
             /\ gameStats'.highScore = gameStats.highScore
             /\ Len(blocks') = Cardinality(GridCells)
             /\ \A k \in 1..Len(blocks') : ~BlockAt(State', k).destroyed
             /\ powerUps' = << >>
             /\ particles' = << >>
             /\ DOMAIN activePowerUps' = {}
             /\ paddle'.width = config.paddle.width
             /\ Len(balls') = 1 ]_vars

\* The player advanced from a level that ended with a life lost, a
\* power-up timer running and the paddle extended
C15_Witness ==
    /\ last.op = "handleSpaceKey"
    /\ last.pre.gameState = LEVEL_COMPLETE
    /\ gameState = PLAYING
    /\ gameStats.level = 2
    /\ gameStats.lives < 3
    /\ last.pre.active # {}
    /\ last.pre.width > config.paddle.width

\* C16: at most one frame callback is pending; start() called while one is
\* pending and stop() called while none is pending change nothing.
C16_OneLoop ==
    /\ Pending(frames) <= 1
    /\ Pending(frames) = 1
         => start(World("start", -1, Tape0)) = World("start", -1, Tape0)
    /\ Pending(frames) = 0
         => stop(World("stop", -1, Tape0)) = World("stop", -1, Tape0)

\* The game was restarted, paused and resumed, and one frame is pending
C16_Witness ==
    /\ last.op = "togglePause"
    /\ StatePath(last) = << PAUSED, PLAYING >>
    /\ gameStats.score < gameStats.highScore
    /\ Pending(frames) = 1

\* C17: the relaunch callback launches a ball when it fires in PLAYING and
\* only then; fired in any other state it leaves every field of the engine
\* as it is.
C17_StaleRelaunch ==
    /\ last.op = "timeout"
         => /\ last.launched = (IF last.pre.gameState = PLAYING THEN 1 ELSE 0)
            /\ Len(balls) = last.pre.balls + last.launched
            /\ gameState = last.pre.gameState
    /\ gameState # PLAYING
         => relaunch(World("timeout", -1, Tape0)) = World("timeout", -1, Tape0)

\* A relaunch callback fired while the game was paused
C17_Witness ==
    /\ last.op = "timeout"
    /\ last.pre.gameState = PAUSED
    /\ gameState = PAUSED
    /\ balls = << >>

\* C18: after destroy() no frame callback and no relaunch timer is pending.
C18_NothingPending ==
    last.op = "destroy" => (Pending(frames) = 0 /\ timeouts = << >>)

\* C19: the timers hold one entry per type at most, none above the full
\* duration; a pickup sets the timer of its type to the full duration,
\* whether the type was active or not, and the tick ends with the full
\* duration less the tick's time left.
C19_TimerReset ==
    /\ \A t \in DOMAIN activePowerUps :
           \E i \in 1..Len(PowerUpTypes) : PowerUpTypes[i] = t
    /\ \A t \in DOMAIN activePowerUps :
           activePowerUps[t] > 0 /\ activePowerUps[t] <= config.powerUps.duration
    /\ \A p \in Pickups :
           /\ p.timeLeft = config.powerUps.duration
           /\ IF last.dt < config.powerUps.duration
              THEN /\ p.type \in DOMAIN activePowerUps
                   /\ activePowerUps[p.type] = config.powerUps.duration - last.dt
              ELSE p.type \notin DOMAIN activePowerUps

\* A multi-ball or a ball-slow picked up while its timer runs, in a tick
\* shorter than the duration
C19_Witness ==
    \E p \in Pickups :
        /\ p.type \in {MULTI_BALL, BALL_SLOW}
        /\ p.wasActive
        /\ last.dt < config.powerUps.duration
        /\ activePowerUps[p.type] = config.powerUps.duration - last.dt

\* C20: a bonus-points pickup adds 500 to the score and bonus-points is
\* never a key of the power-up timers.
C20_BonusUntimed ==
    /\ \A p \in Pickups :
           p.type = BONUS_POINTS => p.score = p.scoreBefore + 500
    /\ BONUS_POINTS \notin DOMAIN activePowerUps

-----------------------------------------------------------------------------
(* Properties of the power-ups, the input and the balls *)

\* The balls after a ball-slow is activated in w and expires with nothing
\* in between
slowAndExpire(w) ==
    deactivatePowerUp(activatePowerUp(w, [type |-> BALL_SLOW]), BALL_SLOW).balls

\* C21: a ball-slow that is activated and expires, with no ball spawned and
\* no speed limit applied in between, leaves every ball with the velocity
\* it had before the activation.
C21_SlowReversed ==
    slowAndExpire(World("frame", 0, Tape0)) = balls

\* C22: a key pressed after the last pointer position decides the tick: with
\* only ArrowLeft down a tick of some length moves the paddle to the left
\* unless it is at the left edge, with only d down to the right unless it
\* is at the right edge.
C22_KeyAfterPointer ==
    [][ (gameState = PLAYING /\ last'.op = "frame" /\ last'.dt > 0
                             /\ last' # last)
          => /\ (keys = {"ArrowLeft"} /\ paddle.x > 0)
                   => paddle'.x < paddle.x
             /\ (keys = {"d"}
                     /\ paddle.x < config.canvas.width - paddle.width)
                   => paddle'.x > paddle.x ]_vars

\* The ball is inside the walls
InsideWalls(ball) ==
    /\ ball.x >= config.ball.radius
    /\ ball.x <= config.canvas.width - config.ball.radius
    /\ ball.y >= config.ball.radius

\* The ball after the wall step
afterWalls(ball) == bounceTopWall(bounceSideWalls(ball))

\* C23: the wall step of a tick leaves the squared speed of a ball as it
\* was and the ball inside the walls, whatever walls the ball has passed;
\* after a tick every ball is inside the walls.
C23_WallsElastic ==
    /\ \A i \in 1..Len(balls), dt \in DeltaTimes :
           /\ Speed2(afterWalls(moveBall(balls[i], dt)))
                  = Speed2(moveBall(balls[i], dt))
           /\ InsideWalls(afterWalls(moveBall(balls[i], dt)))
    /\ Ticked => \A i \in 1..Len(balls) : InsideWalls(balls[i])

\* A tick has put a ball back from beyond a side wall and the top wall
C23_Witness ==
    /\ Ticked
    /\ \E i \in 1..Len(balls) :
           /\ balls[i].x \in { config.ball.radius,
                               config.canvas.width - config.ball.radius }
           /\ balls[i].y = config.ball.radius

\* C24: in START_SCREEN, PAUSED, LEVEL_COMPLETE and GAME_OVER no frame
\* callback is pending.
C24_StoppedOutsidePlay ==
    gameState \in {START_SCREEN, PAUSED, LEVEL_COMPLETE, GAME_OVER}
        => Pending(frames) = 0

\* The game was paused while the loop ran, a relaunch timer pending
C24_Witness ==
    /\ gameState = PAUSED
    /\ last.op = "togglePause"
    /\ timeouts # << >>
    /\ Pending(frames) = 0

\* The entities and the stats of the engine
Entities ==
    [ balls |-> balls, paddle |-> paddle, blocks |-> blocks,
      currentLevel |-> currentLevel, powerUps |-> powerUps,
      particles |-> particles, activePowerUps |-> activePowerUps,
      gameStats |-> gameStats ]

\* C25: a step taken in PAUSED leaves the balls, the paddle, the blocks,
\* the power-ups, the particles, the power-up timers and the stats as they
\* are, and leaves the state PAUSED or, the resume command, makes it
\* PLAYING.
C25_PauseRetains ==
    [][ gameState = PAUSED
          => /\ gameState' \in {PAUSED, PLAYING}
             /\ Entities' = Entities ]_vars

\* The last handler was a command that reset the level: a start, a restart
\* or an advance
LevelReset ==
    /\ last.op \in {"startGame", "handleSpaceKey", "click"}
    /\ last.pre.gameState \in {START_SCREEN, LEVEL_COMPLETE, GAME_OVER}

Spawned ==
    SumSeq([ i \in 1..Len(last.pickups) |->
               last.pickups[i].balls - last.pickups[i].ballsBefore ])

\* C27: a tick in which some but not all of the balls pass the bottom edge
\* removes those balls and takes no life, ends no game, schedules no
\* relaunch and, without a hit, leaves the combo; a tick changes lives only
\* by taking one life, and only when it ends with no ball.
C27_PartialLoss ==
    /\ (Ticked /\ last.lost > 0 /\ last.lost < last.pre.balls)
         => /\ Len(balls) = last.pre.balls - last.lost + Spawned
            /\ gameStats.lives = last.pre.lives
            /\ ~last.allLost
            /\ last.scheduled = 0
            /\ gameState # GAME_OVER
            /\ (last.hits = << >> /\ last.paddleHits = 0)
                 => gameStats.combo = last.pre.combo
    /\ (Ticked /\ gameStats.lives # last.pre.lives)
         => /\ gameStats.lives = last.pre.lives - 1
            /\ balls = << >>

\* A tick lost one of several balls
C27_Witness ==
    /\ Ticked
    /\ last.lost > 0
    /\ last.lost < last.pre.balls
    /\ last.pre.combo > 0

\* The combo before block hit i of the last handler, were it changed by
\* block hits only
ComboCarried(i) ==
    IF i = 1 THEN last.pre.combo ELSE last.hits[i - 1].combo

\* The combo the last handler ends with, were it changed by block hits only
ComboLeft ==
    IF last.hits = << >> THEN last.pre.combo
    ELSE last.hits[Len(last.hits)].combo

\* C28: every block hit adds exactly 1 to the combo; between the hits of a
\* tick, and before its end, the combo is changed only by a paddle
\* reflection, which sets it to 0, and by the loss of all balls, which
\* sets it to 0; a handler that is no tick leaves the combo.
C28_ComboSteps ==
    /\ \A i \in 1..Len(last.hits) :
           /\ last.hits[i].combo = last.hits[i].comboBefore + 1
           /\ \/ last.hits[i].comboBefore = ComboCarried(i)
              \/ last.paddleHits > 0 /\ last.hits[i].comboBefore = 0
    /\ Ticked =>
           IF last.allLost THEN gameStats.combo = 0
           ELSE IF last.paddleHits = 0 THEN gameStats.combo = ComboLeft
           ELSE IF last.hits = << >> THEN gameStats.combo = 0
           ELSE gameStats.combo \in {0, ComboLeft}
    /\ last.op \in {"timeout", "handleSpaceKey"}
         => gameStats.combo = last.pre.combo

\* A paddle reflection has set a combo back to 0
C28_Witness ==
    /\ Ticked
    /\ last.paddleHits > 0
    /\ ~last.allLost
    /\ last.pre.combo > 1
    /\ gameStats.combo = 0

\* The balls spawnExtraBalls adds to the balls bs
spawnedBalls(after, before) == SubSeq(after, Len(before) + 1, Len(after))

\* The ball has the speed of the ball first, but for the rounding
SameSpeed(ball, first) ==
    Abs(Speed2(ball) - Speed2(first)) * 1000 <= Speed2(first) * SpeedRounding

\* The balls spawned from the balls before: two when a ball is live, none
\* otherwise, each with the speed of the first ball and not moving downward
SpawnedRight(sb, before) ==
    /\ Len(sb) = (IF before # << >> THEN 2 ELSE 0)
    /\ \A i \in 1..Len(sb) : SameSpeed(sb[i], before[1]) /\ sb[i].vy <= 0

\* C29 as stated: every pickup of a multi-ball adds exactly two balls.
C29_TwoMore ==
    \A p \in Pickups :
        p.type = MULTI_BALL => p.balls = p.ballsBefore + 2

\* C29: a pickup of a multi-ball adds exactly two balls when a ball is live
\* and none when no ball is live; the two balls spawned have the speed of
\* the first live ball and a vertical velocity that is not downward.
C29_TwoMoreFromLiveBall ==
    /\ \A p \in Pickups :
           p.type = MULTI_BALL
             => p.balls = p.ballsBefore + (IF p.ballsBefore > 0 THEN 2 ELSE 0)
    /\ \A rnd \in Tapes :
           SpawnedRight(spawnedBalls(spawnExtraBalls(World("frame", 0, rnd)).balls,
                                     balls), balls)

\* A multi-ball was picked up with one ball live: three balls
C29_Witness ==
    \E p \in Pickups :
        /\ p.type = MULTI_BALL
        /\ p.ballsBefore = 1
        /\ p.balls = 3
        /\ Len(balls) >= 3

\* C30: whenever the state is PLAYING a frame callback of the game loop is
\* pending, after the start, the resume, the restart and the advance from
\* LEVEL_COMPLETE alike, so that a tick runs without a further command.
C30_LoopRuns ==
    gameState = PLAYING => Pending(frames) = 1

------------------------------------------------------------------------------
(* Properties over whole games *)

\* C31: the lives are never negative, over every sequence of ticks, ball
\* losses and start and restart commands (space key, touch, canvas click).
C31_LivesNonNegative ==
    gameStats.lives >= 0

\* A game restarted by resetGame() in which no ball was lost and no block
\* hit: every relaunch timer pending was scheduled before the restart
FreshGame ==
    /\ gameState = PLAYING
    /\ gameStats.lives = 3
    /\ gameStats.score = 0
    /\ gameStats.level = 1

\* C32: a relaunch callback scheduled in one attempt adds no ball to a later
\* one: when a callback fires after a restart from GAME_OVER or an advance
\* from LEVEL_COMPLETE, no ball lost and no multi-ball picked up since,
\* exactly one ball is live afterwards.
C32_NoBallFromEarlierAttempt ==
    [][ ( /\ last'.op = "timeout"
          /\ \/ FreshGame
             \/ LevelReset /\ last.pre.gameState \in {GAME_OVER, LEVEL_COMPLETE} )
          => Len(balls') = 1 ]_vars

\* The blocks of the current level
LevelBlocks == currentLevel.blocks

\* The health of every block is within 0..maxHealth, and the block is
\* destroyed exactly when its health is 0
BlocksSound ==
    \A i \in 1..Len(LevelBlocks) :
        /\ LevelBlocks[i].health >= 0
        /\ LevelBlocks[i].health <= LevelBlocks[i].maxHealth
        /\ LevelBlocks[i].destroyed <=> LevelBlocks[i].health = 0

\* C33: every block has 0 <= health <= maxHealth and is destroyed exactly
\* when its health is 0; while the level stays the current one a destroyed
\* block stays destroyed and the health of no block increases.
C33_BlockHealth ==
    /\ BlocksSound
    /\ [][ /\ BlocksSound'
           /\ (currentLevel'.id = currentLevel.id /\ gameState # GAME_OVER)
                => /\ Len(LevelBlocks') = Len(LevelBlocks)
                   /\ \A i \in 1..Len(LevelBlocks) :
                          /\ LevelBlocks[i].destroyed => LevelBlocks'[i].destroyed
                          /\ LevelBlocks'[i].health <= LevelBlocks[i].health ]_vars

\* A tick destroyed a block that had been damaged before, another block
\* damaged and not destroyed
C33_Witness ==
    /\ Ticked
    /\ \E i \in 1..Len(last.hits) :
           /\ last.hits[i].before.health < last.hits[i].before.maxHealth
           /\ last.hits[i].after.destroyed
    /\ \E j \in 1..Len(LevelBlocks) :
           /\ LevelBlocks[j].health > 0
           /\ LevelBlocks[j].health < LevelBlocks[j].maxHealth

\* C34: a ball-slow picked up while ball-slow is active slows the balls no
\* further: the damping factor is applied once for the expiry that reverses
\* it.
C34_SlowOnce ==
    BALL_SLOW \in DOMAIN activePowerUps
      => activatePowerUp(World("frame", 0, Tape0), [type |-> BALL_SLOW]).balls = balls

\* C35: once a tick has run the high score is at least the score, and
\* within one run the score of no tick is below the score before it.
C35_HighScoreAbove ==
    /\ [](gameState # START_SCREEN
            => /\ gameStats.highScore # NaN
               /\ gameStats.highScore >= gameStats.score)
    /\ [][ (gameState = PLAYING /\ last'.op = "frame")
             => gameStats'.score >= gameStats.score ]_vars

=============================================================================
